---- MODULE Spec2Model ----
(***************************************************************************)
(* The chat endpoint (POST /api/chat), its search adapter                  *)
(* (performWebSearch) and the message renderer (ChatMessage) of the        *)
(* day-1 deep-search app.                                                  *)
(*                                                                         *)
(* JavaScript strings are TLA+ strings; a JavaScript object is a record    *)
(* whose DOMAIN holds the properties that are present, so that a missing   *)
(* property is a field that is not in the DOMAIN.                          *)
(***************************************************************************)
EXTENDS Integers, Sequences, FiniteSets, TLC

VARIABLES
    env,            \* process.env.SERPER_API_KEY: [set |-> BOOLEAN, value |-> string]
    request,        \* the incoming Request: what request.json() will produce
    pc,             \* position of the POST handler / the execute callback
    session,        \* what auth() resolved to ("pending" before the call)
    response,       \* the Response POST returned (status 0 before it returns)
    messages,       \* body.messages as held by the handler
    events,         \* the collaborator calls made so far, in order
    searchCalls,    \* the queries performWebSearch was called with
    serperCalls,    \* the arguments searchSerper was called with
    serperOutcome,  \* how the searchSerper call settled (kind "pending" before)
    streamTextCalls,\* the arguments streamText was called with
    dataStream,     \* the chunks written to the data stream
    adapter,        \* a direct call of performWebSearch and its repetition
    props,          \* the props ChatMessage is rendered with
    rendered        \* what ChatMessage returned for props

handlerVars == <<env, request, pc, session, response, messages, events, searchCalls,
                 serperCalls, serperOutcome, streamTextCalls, dataStream>>
vars == <<env, request, pc, session, response, messages, events, searchCalls,
          serperCalls, serperOutcome, streamTextCalls, dataStream, adapter, props,
          rendered>>

(***************************************************************************)
(* Bounds of the model.                                                    *)
(***************************************************************************)
MaxHistory == 1     \* messages before the last one
MaxOrganic == 4     \* organic results in a provider response
MaxChunks == 2      \* text chunks the model stream emits
MaxParts == 2       \* parts of a rendered message
MaxCalls == 2       \* calls of the adapter with one query and provider response

(***************************************************************************)
(* String primitives of JavaScript used by the code.                       *)
(***************************************************************************)
UpperLetters == "ABCDEFGHIJKLMNOPQRSTUVWXYZ"
LowerLetters == "abcdefghijklmnopqrstuvwxyz"

LowerChar(c) ==
    IF \E i \in 1..Len(UpperLetters) : SubSeq(UpperLetters, i, i) = c
    THEN LET i == CHOOSE j \in 1..Len(UpperLetters) : SubSeq(UpperLetters, j, j) = c
         IN  SubSeq(LowerLetters, i, i)
    ELSE c

RECURSIVE toLowerCase(_)
toLowerCase(s) ==
    IF Len(s) = 0 THEN ""
    ELSE LowerChar(SubSeq(s, 1, 1)) \o toLowerCase(SubSeq(s, 2, Len(s)))

includes(s, sub) ==
    \E i \in 1..(Len(s) - Len(sub) + 1) : SubSeq(s, i, i + Len(sub) - 1) = sub

RECURSIVE join(_, _)
join(strs, sep) ==
    IF Len(strs) = 0 THEN ""
    ELSE IF Len(strs) = 1 THEN strs[1]
    ELSE strs[1] \o sep \o join(Tail(strs), sep)

Min(a, b) == IF a <= b THEN a ELSE b

\* Array.prototype.slice(from, to) for 0 <= from <= to (zero-based, to excluded)
slice(arr, from, to) == SubSeq(arr, from + 1, Min(to, Len(arr)))

SeqsUpTo(S, n) == UNION {[1..k -> S] : k \in 0..n}

(***************************************************************************)
(* The search adapter.                                                     *)
(***************************************************************************)
SerperNum == 5

Results ==
    { [title |-> "Alpha", snippet |-> "first snippet", link |-> "https://a.example/1"],
      [title |-> "Bravo", snippet |-> "second snippet", link |-> "https://b.example/2"],
      [title |-> "Delta", snippet |-> "third snippet", link |-> "https://d.example/3"] }

\* What awaiting searchSerper can produce: a fault, no response object, a
\* response without an organic list, or a response with an organic list.
SerperOutcomes ==
    { [kind |-> "throws"], [kind |-> "undefined"], [kind |-> "noorganic"] }
    \cup { [kind |-> "organic", organic |-> o] : o \in SeqsUpTo(Results, MaxOrganic) }

\* results?.organic?.length
OrganicLength(outcome) ==
    IF outcome.kind = "organic" THEN Len(outcome.organic) ELSE 0

FormatResult(result, index) ==
    ToString(index + 1) \o ". **" \o result.title \o "**\n   " \o result.snippet
        \o "\n   Source: [" \o result.title \o "](" \o result.link \o ")"

SliceEnd == 3

\* FormattedResults without the slice: every organic result is formatted
FormattedResultsAll(organic) ==
    join([i \in 1..Len(organic) |-> FormatResult(organic[i], i - 1)], "\n\n")

FormattedResults(organic) ==
    LET top == slice(organic, 0, SliceEnd)
    IN  join([i \in 1..Len(top) |-> FormatResult(top[i], i - 1)], "\n\n")

\* performWebSearchTry reading results.organic.length without the optional
\* chaining: a missing response or a missing organic list is a TypeError
performWebSearchTryNoOptionalChaining(query, outcome) ==
    IF outcome.kind \in {"throws", "undefined", "noorganic"}
    THEN [threw |-> TRUE, value |-> "TypeError"]
    ELSE IF Len(outcome.organic) = 0
    THEN [threw |-> FALSE, value |-> "No search results found."]
    ELSE [threw |-> FALSE,
          value |-> "Search results for \"" \o query \o "\":\n\n"
                        \o FormattedResults(outcome.organic)]

\* The try block of performWebSearch: [threw, value]
performWebSearchTry(query, outcome) ==
    IF outcome.kind = "throws"
    THEN [threw |-> TRUE, value |-> "SerperError"]
    ELSE IF OrganicLength(outcome) = 0
    THEN [threw |-> FALSE, value |-> "No search results found."]
    ELSE [threw |-> FALSE,
          value |-> "Search results for \"" \o query \o "\":\n\n"
                        \o FormattedResults(outcome.organic)]

\* performWebSearch without its catch: the fault reaches the caller
performWebSearchNoCatch(query, outcome) == performWebSearchTry(query, outcome)

\* try { ... } catch (error) { return "Sorry, ..." }
performWebSearch(query, outcome) ==
    LET r == performWebSearchTry(query, outcome)
    IN  IF r.threw
        THEN [threw |-> FALSE, value |-> "Sorry, I encountered an error while searching."]
        ELSE r

(***************************************************************************)
(* The inputs of the POST handler.                                         *)
(***************************************************************************)
\* process.env.SERPER_API_KEY: unset, set to the empty string, set to a key
Envs == { [set |-> FALSE], [set |-> TRUE, value |-> ""], [set |-> TRUE, value |-> "sk-1"] }

\* truthiness of process.env.SERPER_API_KEY
Truthy(e) == e.set /\ Len(e.value) > 0

\* what auth() does: throws, resolves to null, to a session without a user,
\* or to a session with a user
AuthOutcomes == {"throws", "null", "nouser", "user"}

UserContents ==
    { "What's the latest news on X?", "TODAY?", "Any ReCeNt work", "CURRENTLY",
      "newspaper", "tell me a joke", "late st to day", "" }

LastMessages ==
    { [role |-> "user", content |-> c] : c \in UserContents }
    \cup { [role |-> r, content |-> c] :
             r \in {"assistant", "system"}, c \in {"Here is the latest news", "ok"} }
    \cup { [role |-> "user"], [role |-> "assistant"] }

HistoryMessages ==
    { [role |-> "user", content |-> "any news today?"],
      [role |-> "assistant", content |-> "latest news today"] }

MessageSeqs ==
    { <<>> } \cup { h \o <<l>> : h \in SeqsUpTo(HistoryMessages, MaxHistory),
                                 l \in LastMessages }

\* What request.json() finds: a body that is not JSON, the JSON value null,
\* an object without messages, an object whose messages is not an array,
\* an object whose messages is an array.
Requests ==
    { [kind |-> "invalid"], [kind |-> "null"],
      [kind |-> "nomessages", body |-> [model |-> "m"]],
      [kind |-> "notarray", body |-> [messages |-> 5]] }
    \cup { [kind |-> "array", body |-> [messages |-> ms]] : ms \in MessageSeqs }

NoResponse == [status |-> 0, body |-> ""]

SearchSystemPrompt ==
    "You are a helpful AI assistant with access to web search results. \n\n"
    \o "IMPORTANT: When using information from search results, you MUST include the source links in your response. Use markdown format: [source name](link).\n\n"
    \o "For example, if you mention information from a Reuters article, include [Reuters](link) in your response.\n\n"
    \o "Always cite your sources with clickable links when providing information from search results."

PlainSystemPrompt ==
    "You are a helpful AI assistant. You can help with general questions and conversations.\n\n"
    \o "If users ask about current events, recent news, or information that might be time-sensitive, let them know that you don't have access to real-time information but you can help with general knowledge questions."

SearchPreamble == "I'll search for current information about that.\n\n"

(***************************************************************************)
(* The POST handler.                                                       *)
(***************************************************************************)
\* new Response("Unauthorized", { status: 401 })
Unauthorized == [status |-> 401, body |-> "Unauthorized"]

\* the outer catch answering without { status: 500 }: the status defaults to 200
InternalServerErrorDefaultStatus == [status |-> 200, body |-> "Internal Server Error"]

\* the outer catch: new Response("Internal Server Error", { status: 500 })
InternalServerError == [status |-> 500, body |-> "Internal Server Error"]

\* the check !session in place of !session?.user
NoSession(s) == s = "null"

\* !session?.user
NoUser(s) == s \in {"null", "nouser"}

\* request.json() throws, or reading body.messages.length throws
ParseThrows(req) == req.kind \in {"invalid", "null", "nomessages"}

\* messages[messages.length - 1]: undefined for an empty array and for a
\* value that is not an array
HasLast(req, ms) == req.kind = "array" /\ Len(ms) > 0
Last(ms) == ms[Len(ms)]

Keywords == {"latest", "current", "news", "today", "recent"}

\* lastMessage.content.toLowerCase() is reached and content is missing
NeedsSearchThrows(req, ms) ==
    /\ HasLast(req, ms)
    /\ Last(ms).role = "user"
    /\ "content" \notin DOMAIN Last(ms)

\* needsSearch comparing the content as written, without toLowerCase()
needsSearchCaseSensitive(req, ms) ==
    /\ HasLast(req, ms)
    /\ Last(ms).role = "user"
    /\ \E k \in Keywords : includes(Last(ms).content, k)

needsSearch(req, ms) ==
    /\ HasLast(req, ms)
    /\ Last(ms).role = "user"
    /\ \E k \in Keywords : includes(toLowerCase(Last(ms).content), k)

\* an error callback that hands the error's own text to the client
onErrorLeak(e) == e

\* the stream-level error callback
onError(e) == "Oops, an error occurred!"

\* the catch of execute: logs and throws the error again
ExecuteCatch(e) == [threw |-> TRUE, error |-> e]

\* An error e raised inside the try of execute, after the events evs: the
\* catch of execute throws it again, and the data stream writes what the
\* error callback makes of it as an error chunk. The response is not touched.
Raise(e, evs) ==
    LET r == ExecuteCatch(e)
    IN  /\ dataStream' = IF r.threw
                         THEN Append(dataStream,
                                     [type |-> "error", value |-> onError(r.error)])
                         ELSE dataStream
        /\ events' = evs \o <<"execute:throw">>
                         \o (IF r.threw THEN <<"onError">> ELSE <<>>)
        /\ pc' = "done"

Auth(outcome) ==
    /\ pc = "start"
    /\ session' = outcome
    /\ IF outcome = "throws"
       THEN /\ events' = events \o <<"auth", "auth:throw">>
            /\ response' = InternalServerError
            /\ pc' = "done"
       ELSE IF NoUser(outcome)
       THEN /\ events' = Append(events, "auth")
            /\ response' = Unauthorized
            /\ pc' = "done"
       ELSE /\ events' = Append(events, "auth")
            /\ response' = response
            /\ pc' = "parse"
    /\ UNCHANGED <<env, request, messages, searchCalls, serperCalls, serperOutcome,
                   streamTextCalls, dataStream, adapter, props, rendered>>

ParseBody ==
    /\ pc = "parse"
    /\ IF ParseThrows(request)
       THEN /\ events' = events \o <<"request.json", "body:throw">>
            /\ response' = InternalServerError
            /\ pc' = "done"
            /\ UNCHANGED messages
       ELSE /\ events' = Append(events, "request.json")
            /\ messages' = request.body.messages
            /\ pc' = "create"
            /\ UNCHANGED response
    /\ UNCHANGED <<env, request, session, searchCalls, serperCalls, serperOutcome,
                   streamTextCalls, dataStream, adapter, props, rendered>>

CreateResponse(throws) ==
    /\ pc = "create"
    /\ IF throws
       THEN /\ events' = events \o <<"createDataStreamResponse",
                                     "createDataStreamResponse:throw">>
            /\ response' = InternalServerError
            /\ pc' = "done"
       ELSE /\ events' = Append(events, "createDataStreamResponse")
            /\ response' = [status |-> 200, body |-> "data-stream"]
            /\ pc' = "execute"
    /\ UNCHANGED <<env, request, session, messages, searchCalls, serperCalls,
                   serperOutcome, streamTextCalls, dataStream, adapter, props, rendered>>

\* streamText({model, messages: ms, system}) followed by
\* result.mergeIntoDataStream(dataStream), inside the try of execute
StreamText(ms, system, throws, evs) ==
    /\ streamTextCalls' = Append(streamTextCalls, [messages |-> ms, system |-> system])
    /\ IF throws
       THEN Raise("StreamTextError", Append(evs, "streamText"))
       ELSE /\ dataStream' = dataStream
            /\ events' = evs \o <<"streamText", "mergeIntoDataStream">>
            /\ pc' = "streaming"

\* execute, up to its first await (or to its end on the plain path)
Execute(throws) ==
    /\ pc = "execute"
    /\ IF NeedsSearchThrows(request, messages)
       THEN /\ Raise("TypeError", events)
            /\ UNCHANGED <<searchCalls, serperCalls, streamTextCalls>>
       ELSE IF needsSearch(request, messages) /\ Truthy(env)
       THEN /\ searchCalls' = Append(searchCalls, Last(messages).content)
            /\ serperCalls' = Append(serperCalls,
                                     [q |-> Last(messages).content, num |-> SerperNum])
            /\ events' = events \o <<"performWebSearch", "searchSerper">>
            /\ pc' = "awaitSerper"
            /\ UNCHANGED <<streamTextCalls, dataStream>>
       ELSE /\ StreamText(messages, PlainSystemPrompt, throws, events)
            /\ UNCHANGED <<searchCalls, serperCalls>>
    /\ UNCHANGED <<env, request, session, response, messages, serperOutcome,
                   adapter, props, rendered>>

\* the synthesized message put before the received messages
messagesWithSearchPrepend(ms, searchResults) ==
    << [role |-> "assistant", content |-> SearchPreamble \o searchResults] >> \o ms

\* [...messages, {role: "assistant", content: `I'll search ...\n\n${searchResults}`}]
messagesWithSearch(ms, searchResults) ==
    ms \o << [role |-> "assistant", content |-> SearchPreamble \o searchResults] >>

\* execute from the point where the searchSerper call settles
SerperSettles(outcome, throws) ==
    /\ pc = "awaitSerper"
    /\ serperOutcome' = outcome
    /\ LET r == performWebSearch(Last(messages).content, outcome)
       IN  IF r.threw
           THEN /\ Raise(r.value, events)
                /\ UNCHANGED streamTextCalls
           ELSE StreamText(messagesWithSearch(messages, r.value), SearchSystemPrompt,
                           throws, Append(events, "performWebSearch:return"))
    /\ UNCHANGED <<env, request, session, response, messages, searchCalls,
                   serperCalls, adapter, props, rendered>>

TextChunks(ds) == Cardinality({i \in 1..Len(ds) : ds[i].type = "text"})

\* the merged model stream emits a text chunk
ModelChunk ==
    /\ pc = "streaming"
    /\ TextChunks(dataStream) < MaxChunks
    /\ dataStream' = Append(dataStream, [type |-> "text", value |-> "token"])
    /\ UNCHANGED <<env, request, pc, session, response, messages, events, searchCalls,
                   serperCalls, serperOutcome, streamTextCalls, adapter, props, rendered>>

\* the merged model stream ends
ModelFinish ==
    /\ pc = "streaming"
    /\ dataStream' = Append(dataStream, [type |-> "finish", value |-> "stop"])
    /\ pc' = "done"
    /\ UNCHANGED <<env, request, session, response, messages, events, searchCalls,
                   serperCalls, serperOutcome, streamTextCalls, adapter, props, rendered>>

\* the merged model stream raises an error
ModelError ==
    /\ pc = "streaming"
    /\ dataStream' = Append(dataStream, [type |-> "error", value |-> onError("ModelError")])
    /\ events' = events \o <<"model:error", "onError">>
    /\ pc' = "done"
    /\ UNCHANGED <<env, request, session, response, messages, searchCalls,
                   serperCalls, serperOutcome, streamTextCalls, adapter, props, rendered>>

IdleAdapter == [called |-> FALSE]
IdleProps == [role |-> "idle", userName |-> ""]
IdleRendered == [done |-> FALSE]

Init ==
    /\ env \in Envs
    /\ request \in Requests
    /\ pc = "start"
    /\ session = "pending"
    /\ response = NoResponse
    /\ messages = <<>>
    /\ events = <<>>
    /\ searchCalls = <<>>
    /\ serperCalls = <<>>
    /\ serperOutcome = [kind |-> "pending"]
    /\ streamTextCalls = <<>>
    /\ dataStream = <<>>
    /\ adapter = IdleAdapter
    /\ props = IdleProps
    /\ rendered = IdleRendered

Next ==
    \/ \E outcome \in AuthOutcomes : Auth(outcome)
    \/ ParseBody
    \/ \E throws \in BOOLEAN : CreateResponse(throws)
    \/ \E throws \in BOOLEAN : Execute(throws)
    \/ \E outcome \in SerperOutcomes, throws \in BOOLEAN : SerperSettles(outcome, throws)
    \/ ModelChunk
    \/ ModelFinish
    \/ ModelError

Spec == Init /\ [][Next]_vars

(***************************************************************************)
(* The search adapter called on its own, and called again with the same    *)
(* query and the same provider response.                                   *)
(***************************************************************************)
Queries == { "What's the latest news on X?", "TODAY?" }

InitHandlerIdle ==
    /\ env = [set |-> FALSE]
    /\ request = [kind |-> "invalid"]
    /\ pc = "idle"
    /\ session = "pending"
    /\ response = NoResponse
    /\ messages = <<>>
    /\ events = <<>>
    /\ searchCalls = <<>>
    /\ serperCalls = <<>>
    /\ serperOutcome = [kind |-> "pending"]
    /\ streamTextCalls = <<>>
    /\ dataStream = <<>>

InitAdapter ==
    /\ InitHandlerIdle
    /\ adapter = IdleAdapter
    /\ props = IdleProps
    /\ rendered = IdleRendered

AdapterCall(query, outcome) ==
    /\ ~adapter.called
    /\ adapter' = [called |-> TRUE, query |-> query, outcome |-> outcome,
                   returns |-> << performWebSearch(query, outcome) >>]
    /\ UNCHANGED <<handlerVars, props, rendered>>

AdapterRepeat ==
    /\ adapter.called
    /\ Len(adapter.returns) < MaxCalls
    /\ adapter' = [adapter EXCEPT !.returns =
                       Append(@, performWebSearch(adapter.query, adapter.outcome))]
    /\ UNCHANGED <<handlerVars, props, rendered>>

NextAdapter ==
    \/ \E query \in Queries, outcome \in SerperOutcomes : AdapterCall(query, outcome)
    \/ AdapterRepeat

SpecAdapter == InitAdapter /\ [][NextAdapter]_vars

(***************************************************************************)
(* The message renderer.                                                   *)
(***************************************************************************)
\* JSON.stringify(v, null, 2) of the objects the model uses as tool
\* arguments and results: objects with the one string property q
JSONStringify(v) == "{\n  \"q\": \"" \o v.q \o "\"\n}"

ToolInvocations ==
    { [state |-> "partial-call", toolName |-> "search", args |-> [q |-> "ne"]],
      [state |-> "call", toolName |-> "search", args |-> [q |-> "news"]],
      [state |-> "result", toolName |-> "search", args |-> [q |-> "news"],
       result |-> [q |-> "found"]] }

Details ==
    << [type |-> "text", text |-> "a detail"],
       [type |-> "redacted", data |-> "b64"],
       [type |-> "signature"] >>

Parts ==
    { [type |-> "text", text |-> "**bold** text"] }
    \cup { [type |-> "tool-invocation", toolInvocation |-> t] : t \in ToolInvocations }
    \cup { [type |-> "step-start"],
           [type |-> "reasoning", reasoning |-> "thinking", details |-> <<>>],
           [type |-> "reasoning", reasoning |-> "thinking", details |-> Details],
           [type |-> "source", source |-> "https://a.example/1"],
           [type |-> "file", data |-> "b64"] }

PropsSet ==
    LET base == { [role |-> r, userName |-> "Ann"] : r \in {"user", "assistant"} }
        withParts == base \cup { [role |-> b.role, userName |-> b.userName, parts |-> ps] :
                                   b \in base, ps \in SeqsUpTo(Parts, MaxParts) }
    IN  withParts \cup
        { [f \in DOMAIN w \cup {"content"} |->
              IF f = "content" THEN c ELSE w[f]] : w \in withParts, c \in {"", "plain *md*"} }

\* <Markdown>{children}</Markdown>
Markdown(children) == [threw |-> FALSE, el |-> "Markdown", lines |-> <<children>>]

Div(lines) == [threw |-> FALSE, el |-> "div", lines |-> lines]

\* the tool-invocation arm (the icons of the labels are left out)
RenderToolInvocation(t) ==
    Div( << IF t.state = "partial-call" THEN "Calling..."
            ELSE IF t.state = "call" THEN "Tool Called"
            ELSE IF t.state = "result" THEN "Tool Result"
            ELSE "",
            t.toolName >>
         \o (IF t.state \in {"partial-call", "call"}
             THEN << "Arguments:", JSONStringify(t.args) >> ELSE <<>>)
         \o (IF t.state = "result"
             THEN << "Result:", JSONStringify(t.result) >> ELSE <<>>) )

RenderDetail(d) ==
    IF "type" \in DOMAIN d /\ d.type = "text" THEN d.text
    ELSE IF "type" \in DOMAIN d /\ d.type = "redacted" THEN "[Redacted: " \o d.data \o "]"
    ELSE "Unknown detail type"

\* the reasoning arm
RenderReasoning(part) ==
    Div( << "Reasoning", part.reasoning >>
         \o (IF "details" \in DOMAIN part /\ Len(part.details) > 0
             THEN << "Details:" >> \o [i \in 1..Len(part.details) |->
                                           RenderDetail(part.details[i])]
             ELSE <<>>) )

\* a default arm that throws on a discriminator it does not know
RenderUnsupportedThrows(part) ==
    [threw |-> TRUE, el |-> "div", lines |-> << "Unknown part type: " \o part.type >>]

\* the default arm
RenderUnsupported(part) == Div(<< "Unsupported message part type: " \o part.type >>)

renderMessagePart(part) ==
    CASE part.type = "text" -> Markdown(part.text)
      [] part.type = "tool-invocation" -> RenderToolInvocation(part.toolInvocation)
      [] part.type = "step-start" -> Div(<< "Starting new step..." >>)
      [] part.type = "reasoning" -> RenderReasoning(part)
      [] OTHER -> RenderUnsupported(part)

\* parts && parts.length > 0
HasParts(p) == "parts" \in DOMAIN p /\ Len(p.parts) > 0

\* the check content !== undefined in place of the truthiness of content
HasContentDefined(p) == "content" \in DOMAIN p

\* truthiness of content
HasContent(p) == "content" \in DOMAIN p /\ Len(p.content) > 0

\* parts.map((part, index) => <div key={index}>{renderMessagePart(part)}</div>)
RenderParts(parts) ==
    [i \in 1..Len(parts) |-> [key |-> i - 1, child |-> renderMessagePart(parts[i])]]

\* the body of the message: the children of <div className="prose ...">
MessageBody(p) ==
    IF HasParts(p) THEN RenderParts(p.parts)
    ELSE IF HasContent(p) THEN << [key |-> -1, child |-> Markdown(p.content)] >>
    ELSE << [key |-> -1, child |-> Div(<< "No message content available" >>)] >>

ChatMessage(p) ==
    LET body == MessageBody(p)
    IN  IF \E i \in 1..Len(body) : body[i].child.threw
        THEN [done |-> TRUE, threw |-> TRUE]
        ELSE [done |-> TRUE, threw |-> FALSE,
              label |-> IF p.role = "assistant" THEN "AI" ELSE p.userName,
              body |-> body]

InitRender ==
    /\ InitHandlerIdle
    /\ adapter = IdleAdapter
    /\ props \in PropsSet
    /\ rendered = IdleRendered

Render ==
    /\ ~rendered.done
    /\ rendered' = ChatMessage(props)
    /\ UNCHANGED <<handlerVars, adapter, props>>

NextRender ==
    \/ Render

SpecRender == InitRender /\ [][NextRender]_vars

(***************************************************************************)
(* The claims.                                                             *)
(***************************************************************************)
Occurs(e) == \E i \in 1..Len(events) : events[i] = e
Count(seq, S) == Cardinality({i \in 1..Len(seq) : seq[i] \in S})
FirstIndex(e) == CHOOSE i \in 1..Len(events) : events[i] = e /\ \A j \in 1..(i - 1) : events[j] # e

\* the execute callback has run its decision between the search path and the plain path
PastExecute ==
    \/ pc \in {"awaitSerper", "streaming"}
    \/ pc = "done" /\ Occurs("createDataStreamResponse")
                   /\ ~Occurs("createDataStreamResponse:throw")

\* C1: when the session resolver returns no authenticated user (null, or a
\* session without a user) the response has status 401 and nothing else was
\* done for the request: the body was not parsed, no data-stream response
\* was opened, performWebSearch, searchSerper and streamText were not called.
C1_Unauthenticated401 ==
    session \in {"null", "nouser"} =>
        /\ response.status = 401
        /\ pc = "done"
        /\ events = <<"auth">>
        /\ messages = <<>>
        /\ searchCalls = <<>>
        /\ serperCalls = <<>>
        /\ streamTextCalls = <<>>
        /\ dataStream = <<>>

C1_Witness ==
    /\ session = "nouser"
    /\ response.status = 401
    /\ request.kind = "array"
    /\ Len(request.body.messages) > 0

\* the request's last message is from the user, its lowercased content holds
\* a keyword, and SERPER_API_KEY holds a key
C2_Triggered ==
    /\ request.kind = "array"
    /\ Len(request.body.messages) > 0
    /\ LET m == request.body.messages[Len(request.body.messages)]
       IN  /\ m.role = "user"
           /\ "content" \in DOMAIN m
           /\ \E k \in {"latest", "current", "news", "today", "recent"} :
                  includes(toLowerCase(m.content), k)
    /\ env.set
    /\ env.value # ""

\* C2: once execute has decided, performWebSearch has been called exactly
\* once, with the last message's content as written, when the last message
\* is the user's, its lowercased content holds one of the five keywords and
\* the search credential is there; in every other case, and before the
\* decision, it has not been called at all.
C2_SearchExactlyWhenTriggered ==
    IF PastExecute /\ C2_Triggered
    THEN searchCalls = << request.body.messages[Len(request.body.messages)].content >>
    ELSE searchCalls = <<>>

C2_Witness ==
    /\ searchCalls = << "TODAY?" >>
    /\ Len(request.body.messages) = 2
    /\ pc = "awaitSerper"

\* C3: when the searchSerper call raised a fault, performWebSearch returned
\* the apology, the handler called streamText on the search path with the
\* received messages followed by the assistant message carrying the
\* apology, the response is the opened stream (status 200), and an error in
\* the stream, if any, was raised by the model stage, not by the search.
C3_SearchFaultIsSwallowed ==
    serperOutcome.kind = "throws" =>
        /\ Occurs("performWebSearch:return")
        /\ streamTextCalls =
             << [messages |-> request.body.messages \o
                     << [role |-> "assistant",
                         content |-> "I'll search for current information about that.\n\n"
                                     \o "Sorry, I encountered an error while searching."] >>,
                 system |-> SearchSystemPrompt] >>
        /\ response.status = 200
        /\ \A i \in 1..Len(events) :
               events[i] \in {"execute:throw", "onError"} =>
                   \E j \in 1..(i - 1) : events[j] = "streamText"

C3_Witness ==
    /\ serperOutcome.kind = "throws"
    /\ pc = "streaming"
    /\ dataStream = <<>>

\* C6: every error raised in the try of execute or by the merged model
\* stream is written to the data stream as one error chunk whose text is
\* "Oops, an error occurred!", and the response stays the opened
\* data-stream response with its status 200.
C6_StreamErrorsAreGeneric ==
    /\ Count(events, {"execute:throw", "model:error"}) =
           Cardinality({i \in 1..Len(dataStream) : dataStream[i].type = "error"})
    /\ \A i \in 1..Len(dataStream) :
           dataStream[i].type = "error" => dataStream[i].value = "Oops, an error occurred!"
    /\ Count(events, {"execute:throw", "model:error"}) > 0 =>
           response = [status |-> 200, body |-> "data-stream"]

C6_Witness ==
    /\ pc = "done"
    /\ Occurs("model:error")
    /\ Len(dataStream) = 2
    /\ dataStream[2].type = "error"
    /\ Len(searchCalls) = 1

\* C7: an error raised before the data-stream response exists (auth()
\* throws, the body is not JSON, the body is null or has no messages, or
\* createDataStreamResponse throws) yields status 500 with the body
\* "Internal Server Error", and neither the search nor the model is called.
C7_EarlyErrorsAre500 ==
    ( \/ session = "throws"
      \/ Occurs("request.json") /\ request.kind \in {"invalid", "null", "nomessages"}
      \/ Occurs("createDataStreamResponse:throw") )
    => /\ response = [status |-> 500, body |-> "Internal Server Error"]
       /\ pc = "done"
       /\ searchCalls = <<>>
       /\ serperCalls = <<>>
       /\ streamTextCalls = <<>>
       /\ dataStream = <<>>

C7_Witness ==
    /\ Occurs("request.json")
    /\ request.kind = "nomessages"
    /\ response.status = 500

\* C8: streamText is called at most once. On the search path it is called
\* after performWebSearch returned, with the received messages in their
\* order followed by one assistant message whose content is the preamble
\* followed by the adapter's text, and with the source-citing system prompt;
\* on the plain path it is called with the received messages as they are and
\* the no-real-time-access system prompt. The received messages stay as
\* they were parsed.
C8_StreamConditioning ==
    /\ (Occurs("request.json") /\ request.kind \in {"array", "notarray"})
           => messages = request.body.messages
    /\ Len(streamTextCalls) <= 1
    /\ (Len(searchCalls) = 1 /\ ~Occurs("performWebSearch:return"))
           => streamTextCalls = <<>>
    /\ Len(streamTextCalls) = 1 =>
         IF Len(searchCalls) = 1
         THEN /\ streamTextCalls[1].messages =
                     request.body.messages \o
                       << [role |-> "assistant",
                           content |-> "I'll search for current information about that.\n\n"
                               \o performWebSearch(searchCalls[1], serperOutcome).value] >>
              /\ streamTextCalls[1].system = SearchSystemPrompt
              /\ includes(streamTextCalls[1].system, "you MUST include the source links")
              /\ FirstIndex("performWebSearch:return") < FirstIndex("streamText")
         ELSE /\ streamTextCalls[1].messages = request.body.messages
              /\ streamTextCalls[1].system = PlainSystemPrompt
              /\ includes(streamTextCalls[1].system,
                          "you don't have access to real-time information")

C8_Witness ==
    /\ pc = "streaming"
    /\ Len(searchCalls) = 1
    /\ serperOutcome.kind = "organic"
    /\ Len(serperOutcome.organic) = 2
    /\ Len(messages) = 2
    /\ Len(streamTextCalls[1].messages) = 3

\* the entry the adapter writes for the i-th organic result
C4_Entry(o, i) ==
    ToString(i) \o ". **" \o o[i].title \o "**\n   " \o o[i].snippet
        \o "\n   Source: [" \o o[i].title \o "](" \o o[i].link \o ")"

\* C4: for a provider response with n >= 1 organic results the adapter
\* returns the header line quoting the query, a blank line, and min(n, 3)
\* entries separated by blank lines: entry i is numbered i and holds the
\* title, the snippet and the markdown link of the i-th result; no fourth
\* entry is written.
C4_TopThreeInOrder ==
    (adapter.called /\ adapter.outcome.kind = "organic" /\ Len(adapter.outcome.organic) >= 1)
    => LET o == adapter.outcome.organic
           n == Len(o)
           header == "Search results for \"" \o adapter.query \o "\":\n\n"
           expected ==
               IF n = 1 THEN header \o C4_Entry(o, 1)
               ELSE IF n = 2 THEN header \o C4_Entry(o, 1) \o "\n\n" \o C4_Entry(o, 2)
               ELSE header \o C4_Entry(o, 1) \o "\n\n" \o C4_Entry(o, 2)
                           \o "\n\n" \o C4_Entry(o, 3)
       IN  \A c \in 1..Len(adapter.returns) :
               /\ adapter.returns[c] = [threw |-> FALSE, value |-> expected]
               /\ ~includes(adapter.returns[c].value, "4. **")
               /\ \A j \in 4..n :
                      (\A i \in 1..3 : o[i].title # o[j].title)
                          => ~includes(adapter.returns[c].value, o[j].title)

C4_Witness ==
    /\ adapter.called
    /\ adapter.outcome.kind = "organic"
    /\ Len(adapter.outcome.organic) = 4
    /\ adapter.outcome.organic[4].title = "Delta"
    /\ adapter.outcome.organic[1].title = "Bravo"
    /\ adapter.outcome.organic[2].title = "Alpha"
    /\ adapter.outcome.organic[3].title = "Bravo"

\* C5: when the provider response has no organic results (no response, no
\* organic list, or an empty list) the adapter returns exactly
\* "No search results found.", on the first call and on every repetition of
\* the call with the same query and response.
C5_NoResultsString ==
    ( /\ adapter.called
      /\ \/ adapter.outcome.kind \in {"undefined", "noorganic"}
         \/ adapter.outcome.kind = "organic" /\ adapter.outcome.organic = <<>> )
    => \A c \in 1..Len(adapter.returns) :
           adapter.returns[c] = [threw |-> FALSE, value |-> "No search results found."]

C5_Witness ==
    /\ adapter.called
    /\ adapter.outcome.kind = "undefined"
    /\ Len(adapter.returns) = 2

\* C9: a message with N >= 1 parts renders, without throwing, as N blocks;
\* block i is keyed i-1 and holds the rendering of part i, and a part whose
\* type is none of text, tool-invocation, step-start, reasoning renders as
\* the line "Unsupported message part type: <type>".
C9_OneBlockPerPart ==
    (rendered.done /\ "parts" \in DOMAIN props /\ Len(props.parts) >= 1)
    => /\ ~rendered.threw
       /\ Len(rendered.body) = Len(props.parts)
       /\ \A i \in 1..Len(props.parts) :
              /\ rendered.body[i].key = i - 1
              /\ rendered.body[i].child = renderMessagePart(props.parts[i])
              /\ props.parts[i].type = "text"
                     => rendered.body[i].child.lines = << props.parts[i].text >>
              /\ props.parts[i].type \notin
                         {"text", "tool-invocation", "step-start", "reasoning"}
                     => /\ rendered.body[i].child.el = "div"
                        /\ rendered.body[i].child.lines =
                             << "Unsupported message part type: " \o props.parts[i].type >>

C9_Witness ==
    /\ rendered.done
    /\ "parts" \in DOMAIN props
    /\ Len(props.parts) = 2
    /\ props.parts[1].type = "source"
    /\ props.parts[2].type = "text"
    /\ Len(rendered.body) = 2

\* C10: the body of the message is the rendered parts when the parts are a
\* non-empty sequence, whatever the content is; the content through the
\* markdown transform when there are no parts (absent or empty) and the
\* content is a non-empty string; the "No message content available"
\* placeholder when there is neither.
C10_ThreeBodies ==
    rendered.done =>
        /\ ~rendered.threw
        /\ IF "parts" \in DOMAIN props /\ props.parts # <<>>
           THEN /\ Len(rendered.body) = Len(props.parts)
                /\ \A i \in 1..Len(props.parts) : rendered.body[i].key = i - 1
           ELSE IF "content" \in DOMAIN props /\ props.content # ""
           THEN rendered.body =
                    << [key |-> -1, child |-> [threw |-> FALSE, el |-> "Markdown",
                                               lines |-> << props.content >>]] >>
           ELSE rendered.body =
                    << [key |-> -1, child |-> [threw |-> FALSE, el |-> "div",
                                  lines |-> << "No message content available" >>]] >>

C10_Witness ==
    /\ rendered.done
    /\ "parts" \in DOMAIN props
    /\ props.parts = <<>>
    /\ "content" \in DOMAIN props
    /\ props.content = "plain *md*"
    /\ rendered.body[1].child.el = "Markdown"

====
